---------------------------- MODULE Spec2Model ----------------------------
(***************************************************************************)
(* Dual-axis keystroke analyzer: the metrics extractor (extractMetrics),  *)
(* the baseline calibrator (getCalibrationData), the scorer               *)
(* (calculateDualAxis) of analyzer.js, and their two callers, the         *)
(* dashboard's recomputation (RealTimeDashboard) and the JSON report      *)
(* download (ExampleApp).                                                  *)
(*                                                                         *)
(* Representation.                                                         *)
(*  - A text (FinalProduct, a TextContent snapshot, a TextChange) is its   *)
(*    length: the analyzer reads nothing of a text but its length and      *)
(*    whether it is empty.  Undefined (-1) stands for a field that holds   *)
(*    no string, NoChange (-2) for the 'NoChange' sentinel.                *)
(*  - The numbers extractMetrics and getCalibrationData produce are        *)
(*    ratios of small integers and are kept exact, as reduced fractions    *)
(*    [n, d]; total_deletions_words, a running sum of 0.2, keeps the       *)
(*    roundings of its doubles.                                            *)
(*  - calculateDualAxis chains products and quotients with the benchmark   *)
(*    constants; it is evaluated in fixed point, ONE units per 1.0, each   *)
(*    product and quotient rounded down (finite precision, as the          *)
(*    doubles of the program have).  Overflow of a double to Infinity is   *)
(*    outside the model.                                                   *)
(*  - JavaScript indexes arrays from 0; At(arr, i) reads arr[i].           *)
(***************************************************************************)
EXTENDS Integers, Sequences, FiniteSets, TLC

VARIABLES
    keylogData,     \* ExampleApp's keylogData state / the keylog argument
    scoringMode,    \* ExampleApp's scoringMode state
    isSubmitClicked,\* ExampleApp's isSubmitClicked state
    weights,        \* RealTimeDashboard's weights state / the weights argument
    metrics,        \* useMemo's metrics / the result of extractMetrics
    calib,          \* the result of getCalibrationData (the baseline argument)
    dualAxis,       \* useMemo's dualAxis / the result of calculateDualAxis
    calibStatus,    \* useMemo's calibStatus, as handed to setCalibStatus
    reportData,     \* the last report handleDownloadReport built
    scorerCalls,    \* history: who invoked calculateDualAxis, on what
    pc              \* the harness's position: "input" or "done"

vars == <<keylogData, scoringMode, isSubmitClicked, weights, metrics, calib,
          dualAxis, calibStatus, reportData, scorerCalls, pc>>

-----------------------------------------------------------------------------
(* Values *)

Null == [null |-> TRUE]
Undefined == -1
NoChange == -2

Abs(x) == IF x < 0 THEN -x ELSE x

RECURSIVE GCD(_, _)
GCD(a, b) == IF b = 0 THEN a ELSE GCD(b, a % b)

(* Exact numbers: reduced fractions with a positive denominator. *)
Rat(n, d) ==
    LET s == IF d < 0 THEN -1 ELSE 1
        g == GCD(Abs(n), Abs(d))
    IN  [n |-> (s * n) \div g, d |-> (s * d) \div g]

Num(k) == [n |-> k, d |-> 1]
RAdd(p, q) == Rat(p.n * q.d + q.n * p.d, p.d * q.d)
RSub(p, q) == Rat(p.n * q.d - q.n * p.d, p.d * q.d)
RMul(p, q) == Rat(p.n * q.n, p.d * q.d)
RDiv(p, q) == Rat(p.n * q.d, p.d * q.n)
RLt(p, q) == p.n * q.d < q.n * p.d
RLe(p, q) == p.n * q.d <= q.n * p.d
RGt(p, q) == RLt(q, p)

RECURSIVE Sum(_)
Sum(s) == IF s = <<>> THEN 0 ELSE Head(s) + Sum(Tail(s))

At(arr, i) == arr[i + 1]


-----------------------------------------------------------------------------
(* Texts, as their lengths *)

IsString(t) == t # Undefined
IsTruthyText(t) == t = NoChange \/ t > 0
TextLength(t) == IF t = NoChange THEN 8 ELSE t

-----------------------------------------------------------------------------
(* The doubles of the deletion-word count.  total_deletions_words is the   *)
(* one number the analyzer builds by adding a constant that is no binary    *)
(* fraction (0.2), so its roundings are kept: a double is the count of      *)
(* units of 2^-55 it holds, written in limbs of 15 bits, lowest first, with *)
(* at most 53 significant bits.  Values stay below 4096.                    *)

LIMB == 32768
MANTISSA_BITS == 53

Limb(a, i) == IF i <= Len(a) THEN a[i] ELSE 0

RECURSIVE BigAddFrom(_, _, _, _)
BigAddFrom(a, b, i, carry) ==
    IF i > Len(a) /\ i > Len(b)
    THEN (IF carry = 0 THEN <<>> ELSE <<carry>>)
    ELSE LET t == Limb(a, i) + Limb(b, i) + carry
         IN  <<t % LIMB>> \o BigAddFrom(a, b, i + 1, t \div LIMB)

BigAdd(a, b) == BigAddFrom(a, b, 1, 0)

RECURSIVE BigTimesFrom(_, _, _, _)
BigTimesFrom(a, k, i, carry) ==
    IF i > Len(a)
    THEN (IF carry = 0 THEN <<>> ELSE <<carry>>)
    ELSE LET t == a[i] * k + carry
         IN  <<t % LIMB>> \o BigTimesFrom(a, k, i + 1, t \div LIMB)

(* a * k for 0 <= k < LIMB. *)
BigTimes(a, k) == IF k = 0 THEN <<>> ELSE BigTimesFrom(a, k, 1, 0)

RECURSIVE Pow2(_)
Pow2(k) == IF k = 0 THEN 1 ELSE 2 * Pow2(k - 1)

RECURSIVE Bits(_)
Bits(x) == IF x = 0 THEN 0 ELSE 1 + Bits(x \div 2)

BitLength(a) == IF a = <<>> THEN 0 ELSE 15 * (Len(a) - 1) + Bits(a[Len(a)])

(* Round to nearest, ties to even, to MANTISSA_BITS significant bits. *)
RoundToDouble(a) ==
    LET k == BitLength(a) - MANTISSA_BITS
    IN  IF k <= 0 THEN a
        ELSE LET low == a[1] % Pow2(k)
                 half == Pow2(k - 1)
                 odd == (a[1] \div Pow2(k)) % 2 = 1
                 up == low > half \/ (low = half /\ odd)
                 cut == [a EXCEPT ![1] = @ - low]
             IN  IF up THEN BigAdd(cut, <<Pow2(k)>>) ELSE cut

DoubleAdd(a, b) == RoundToDouble(BigAdd(a, b))
DoubleTimes(a, k) == RoundToDouble(BigTimes(a, k))

DoubleZero == <<>>

(* The literal 0.2: 0x1999999999999A * 2^-55. *)
POINT_TWO == <<6554, 13107, 26214, 204>>

-----------------------------------------------------------------------------
(* calculateMedian *)

RECURSIVE Insert(_, _)
Insert(x, s) ==
    IF s = <<>> THEN <<x>>
    ELSE IF RLe(x, Head(s)) THEN <<x>> \o s
    ELSE <<Head(s)>> \o Insert(x, Tail(s))

RECURSIVE Sort(_)
Sort(s) == IF s = <<>> THEN <<>> ELSE Insert(Head(s), Sort(Tail(s)))

calculateMedian(arr) ==
    IF Len(arr) = 0 THEN Num(0)
    ELSE LET sorted == Sort(arr)
             mid == Len(sorted) \div 2
         IN  IF Len(sorted) % 2 # 0
             THEN At(sorted, mid)
             ELSE RDiv(RAdd(At(sorted, mid - 1), At(sorted, mid)), Num(2))

-----------------------------------------------------------------------------
(* extractMetrics *)

PAUSE_THRESHOLD_MS == 200
BURST_BREAK_MS == 2000

SentenceEnds == {".", "!", "?"}
WordBoundaries == {"Space", ".", ",", "!", "?", "Shift", "Backspace"}

Mean(arr) ==
    IF Len(arr) > 0
    THEN RDiv(RDiv(Num(Sum(arr)), Num(Len(arr))), Num(1000))
    ELSE Num(0)

Ikis(keylog) ==
    [i \in 1..(Len(keylog.EventID) - 1) |->
        At(keylog.EventTime, i) - At(keylog.EventTime, i - 1)]

IsPause(iki) == iki >= PAUSE_THRESHOLD_MS

ResolveFinalText(keylog) ==
    IF IsString(keylog.FinalProduct)
    THEN keylog.FinalProduct
    ELSE IF Len(keylog.TextContent) > 0
         THEN At(keylog.TextContent, Len(keylog.TextContent) - 1)
         ELSE 0

ActivityAt(keylog, i) ==
    IF keylog.hasActivity THEN At(keylog.Activity, i) ELSE "Input"

TextChangeAt(keylog, i) ==
    IF keylog.hasTextChange THEN At(keylog.TextChange, i) ELSE 0

(* IsDeletion looking at the activity alone. *)
IsDeletionRemoveCutOnly(keylog, i) == ActivityAt(keylog, i) = "Remove/Cut"

IsDeletion(keylog, i) ==
    ActivityAt(keylog, i) = "Remove/Cut" \/ At(keylog.Output, i) = "Backspace"

IsInsertion(keylog, i) ==
    LET prevCursor == At(keylog.CursorPosition, i - 1)
        prevText == At(keylog.TextContent, i - 1)
        prevLength == IF IsTruthyText(prevText) THEN TextLength(prevText) ELSE 0
    IN  ActivityAt(keylog, i) = "Input" /\ prevCursor < prevLength

(* PauseContext testing the within-word criterion first. *)
PauseContextWithinFirst(keylog, i) ==
    LET prevOutput == At(keylog.Output, i - 1)
        currOutput == At(keylog.Output, i)
        iki == At(keylog.EventTime, i) - At(keylog.EventTime, i - 1)
    IN  IF ~IsPause(iki) THEN "none"
        ELSE IF prevOutput \notin WordBoundaries /\ currOutput \notin WordBoundaries
             THEN "within"
        ELSE IF prevOutput = "Space" \/ i = 1 THEN "word"
        ELSE IF prevOutput \in SentenceEnds THEN "sentence"
        ELSE "none"

(* The pause context of interval i: "word", "sentence", "within" or "none". *)
PauseContext(keylog, i) ==
    LET prevOutput == At(keylog.Output, i - 1)
        currOutput == At(keylog.Output, i)
        iki == At(keylog.EventTime, i) - At(keylog.EventTime, i - 1)
    IN  IF ~IsPause(iki) THEN "none"
        ELSE IF prevOutput = "Space" \/ i = 1 THEN "word"
        ELSE IF prevOutput \in SentenceEnds THEN "sentence"
        ELSE IF prevOutput \notin WordBoundaries /\ currOutput \notin WordBoundaries
             THEN "within"
        ELSE "none"

IsBurstBoundary(keylog, i) ==
    \/ IsDeletion(keylog, i)
    \/ At(keylog.EventTime, i) - At(keylog.EventTime, i - 1) >= BURST_BREAK_MS

(* BurstEnd taking the boundary event's own timestamp. *)
BurstEndAtBoundary(keylog, i) == At(keylog.EventTime, i)

(* The timestamp that closes the burst when event i is a burst boundary. *)
BurstEnd(keylog, i) == At(keylog.EventTime, i - 1)

(* BurstRestart taking the timestamp of the event before the boundary. *)
BurstRestartAtPrevious(keylog, i) == At(keylog.EventTime, i - 1)

(* The timestamp the next burst starts at when event i is a burst boundary. *)
BurstRestart(keylog, i) == At(keylog.EventTime, i)

InitialCounters(keylog) ==
    [paste_events |-> 0, paste_characters |-> 0, total_insertions |-> 0,
     num_insertions |-> 0, num_deletions |-> 0, total_deletions_words |-> DoubleZero,
     num_revisions |-> 0,
     pauses_before_words |-> <<>>, pauses_before_sentences |-> <<>>,
     pauses_within_words |-> 0,
     bursts |-> <<>>, currentBurstStartTime |-> At(keylog.EventTime, 0)]

(* One iteration of the loop over the events 1..n-1. *)
Step(keylog, i, acc) ==
    LET activity == ActivityAt(keylog, i)
        textChange == TextChangeAt(keylog, i)
        iki == At(keylog.EventTime, i) - At(keylog.EventTime, i - 1)
        paste == activity = "Paste"
        del == IsDeletion(keylog, i)
        ins == IsInsertion(keylog, i)
        ctx == PauseContext(keylog, i)
        burstLength == BurstEnd(keylog, i) - acc.currentBurstStartTime
    IN  [paste_events |-> acc.paste_events + (IF paste THEN 1 ELSE 0),
         paste_characters |-> acc.paste_characters +
            (IF paste /\ IsTruthyText(textChange) /\ textChange # NoChange
             THEN TextLength(textChange) ELSE 0),
         num_deletions |-> acc.num_deletions + (IF del THEN 1 ELSE 0),
         total_deletions_words |->
            IF del THEN DoubleAdd(acc.total_deletions_words, POINT_TWO)
            ELSE acc.total_deletions_words,
         num_insertions |-> acc.num_insertions + (IF ins THEN 1 ELSE 0),
         total_insertions |-> acc.total_insertions + (IF ins THEN 1 ELSE 0),
         num_revisions |-> acc.num_revisions + (IF del THEN 1 ELSE 0)
                                             + (IF ins THEN 1 ELSE 0),
         pauses_before_words |->
            IF ctx = "word" THEN Append(acc.pauses_before_words, iki)
            ELSE acc.pauses_before_words,
         pauses_before_sentences |->
            IF ctx = "sentence" THEN Append(acc.pauses_before_sentences, iki)
            ELSE acc.pauses_before_sentences,
         pauses_within_words |->
            acc.pauses_within_words + (IF ctx = "within" THEN 1 ELSE 0),
         bursts |->
            IF IsBurstBoundary(keylog, i) /\ burstLength > 0
            THEN Append(acc.bursts, Rat(burstLength, 1000))
            ELSE acc.bursts,
         currentBurstStartTime |->
            IF IsBurstBoundary(keylog, i) THEN BurstRestart(keylog, i)
            ELSE acc.currentBurstStartTime]

RECURSIVE Loop(_, _, _)
Loop(keylog, i, acc) ==
    IF i >= Len(keylog.EventID) THEN acc
    ELSE Loop(keylog, i + 1, Step(keylog, i, acc))

(* The bursts after the trailing one is flushed. *)
Bursts(keylog) ==
    LET acc == Loop(keylog, 1, InitialCounters(keylog))
        eventsCount == Len(keylog.EventID)
        finalBurstLength ==
            At(keylog.EventTime, eventsCount - 1) - acc.currentBurstStartTime
    IN  IF finalBurstLength > 0
        THEN Append(acc.bursts, Rat(finalBurstLength, 1000))
        ELSE acc.bursts

(* TotalKeystrokes counting every event, whatever its activity. *)
TotalKeystrokesAllEvents(keylog) ==
    IF Len(keylog.EventID) = 0 THEN 1 ELSE Len(keylog.EventID)

TotalKeystrokes(keylog) ==
    LET counted ==
            IF keylog.hasActivity
            THEN Len(SelectSeq(keylog.Activity, LAMBDA a : a = "Input"))
            ELSE Len(keylog.EventID)
    IN  IF counted = 0 THEN 1 ELSE counted

(* The body of extractMetrics past its guard. *)
ComputeMetrics(keylog) ==
      LET eventsCount == Len(keylog.EventID)
          durationMs == At(keylog.EventTime, eventsCount - 1) - At(keylog.EventTime, 0)
          durationSeconds == Rat(durationMs, 1000)
          finalLength == TextLength(ResolveFinalText(keylog))
          pauses == SelectSeq(Ikis(keylog), IsPause)
          acc == Loop(keylog, 1, InitialCounters(keylog))
      IN  [product_process_ratio |-> RDiv(Num(finalLength), Num(TotalKeystrokes(keylog))),
           num_revisions |-> acc.num_revisions,
           num_deletions |-> acc.num_deletions,
           total_deletions_words |-> acc.total_deletions_words,
           total_insertions |-> acc.total_insertions,
           num_insertions |-> acc.num_insertions,
           paste_events |-> acc.paste_events,
           paste_characters |-> acc.paste_characters,
           rburst_length_median |-> calculateMedian(Bursts(keylog)),
           characters_per_minute |->
               IF RGt(durationSeconds, Num(0))
               THEN RMul(RDiv(Num(finalLength), durationSeconds), Num(60))
               ELSE Num(0),
           pause_time_mean |-> Mean(pauses),
           pause_within_words_count |-> acc.pauses_within_words,
           pause_before_words |-> Mean(acc.pauses_before_words),
           pause_before_sentences |-> Mean(acc.pauses_before_sentences),
           durationSeconds |-> durationSeconds,
           finalLength |-> finalLength,
           totalEvents |-> eventsCount]


MIN_EVENTS == 2

(* extractMetrics with its guard off by one: a single event is analysed. *)
extractMetricsGuardOffByOne(keylog) ==
    IF Len(keylog.EventID) < MIN_EVENTS - 1 THEN Null ELSE ComputeMetrics(keylog)

extractMetrics(keylog) ==
    IF Len(keylog.EventID) < MIN_EVENTS THEN Null ELSE ComputeMetrics(keylog)

-----------------------------------------------------------------------------
(* BENCHMARKS: population (mean, sd) pairs, in thousandths. *)

Bench(mean, sd) == [mean |-> Rat(mean, 1000), sd |-> Rat(sd, 1000)]

BENCHMARKS ==
    [pause_time_mean |-> Bench(1646, 783),
     pause_before_sentences |-> Bench(12682, 29433),
     pause_before_words |-> Bench(1398, 825),
     total_insertions |-> Bench(307960, 344110),
     num_insertions |-> Bench(32950, 36005),
     total_deletions_words |-> Bench(115218, 130943),
     num_revisions |-> Bench(125950, 85112),
     product_process_ratio |-> Bench(824, 111),
     pause_within_words_count |-> Bench(408688, 245747),
     rburst_length_median |-> Bench(6270, 6431),
     characters_per_minute |-> Bench(200000, 75000)]

-----------------------------------------------------------------------------
(* getCalibrationData *)

CALIBRATION_MIN_CHARS == 200

(* ReachesThreshold demanding more than the minimum. *)
ReachesThresholdStrict(text) ==
    IsTruthyText(text) /\ TextLength(text) > CALIBRATION_MIN_CHARS

(* A text of at least 200 characters. *)
ReachesThreshold(text) ==
    IsTruthyText(text) /\ TextLength(text) >= CALIBRATION_MIN_CHARS

CalibrationFinalText(keylog) ==
    IF IsString(keylog.FinalProduct) /\ keylog.FinalProduct # 0
    THEN keylog.FinalProduct
    ELSE IF Len(keylog.TextContent) > 0
         THEN At(keylog.TextContent, Len(keylog.TextContent) - 1)
         ELSE 0

(* The first snapshot of at least 200 characters ends the slice; without  *)
(* one the slice is the whole log.                                         *)
CalibEventIndex(keylog) ==
    LET hits == {i \in 0..(Len(keylog.TextContent) - 1) :
                    ReachesThreshold(At(keylog.TextContent, i))}
    IN  IF hits = {} THEN Len(keylog.EventID)
        ELSE (CHOOSE i \in hits : \A j \in hits : i <= j) + 1

Slice(arr, end) == SubSeq(arr, 1, IF end < Len(arr) THEN end ELSE Len(arr))

(* SlicedKeylog leaving FinalProduct as the log has it. *)
SlicedKeylogKeepingFinalProduct(keylog) ==
    LET calibEventIndex == CalibEventIndex(keylog)
    IN  [EventID |-> Slice(keylog.EventID, calibEventIndex),
         EventTime |-> Slice(keylog.EventTime, calibEventIndex),
         Activity |-> Slice(keylog.Activity, calibEventIndex),
         Output |-> Slice(keylog.Output, calibEventIndex),
         TextChange |-> Slice(keylog.TextChange, calibEventIndex),
         CursorPosition |-> Slice(keylog.CursorPosition, calibEventIndex),
         TextContent |-> Slice(keylog.TextContent, calibEventIndex),
         FinalProduct |-> keylog.FinalProduct,
         hasActivity |-> keylog.hasActivity,
         hasTextChange |-> keylog.hasTextChange]

(* The new object slicedKeylog: arrays cut to the slice, the other fields  *)
(* copied, FinalProduct set to the slice's own last snapshot.              *)
SlicedKeylog(keylog) ==
    LET calibEventIndex == CalibEventIndex(keylog)
        textContent == Slice(keylog.TextContent, calibEventIndex)
        last == IF Len(textContent) > 0
                THEN At(textContent, Len(textContent) - 1) ELSE Undefined
    IN  [EventID |-> Slice(keylog.EventID, calibEventIndex),
         EventTime |-> Slice(keylog.EventTime, calibEventIndex),
         Activity |-> Slice(keylog.Activity, calibEventIndex),
         Output |-> Slice(keylog.Output, calibEventIndex),
         TextChange |-> Slice(keylog.TextChange, calibEventIndex),
         CursorPosition |-> Slice(keylog.CursorPosition, calibEventIndex),
         TextContent |-> textContent,
         FinalProduct |-> IF IsTruthyText(last) THEN last ELSE 0,
         hasActivity |-> keylog.hasActivity,
         hasTextChange |-> keylog.hasTextChange]

(* cvCpm with the quotient upside down. *)
cvCpmInverted ==
    RDiv(BENCHMARKS.characters_per_minute.mean, BENCHMARKS.characters_per_minute.sd)

cvCpm ==
    RDiv(BENCHMARKS.characters_per_minute.sd, BENCHMARKS.characters_per_minute.mean)

cvBurst ==
    RDiv(BENCHMARKS.rburst_length_median.sd, BENCHMARKS.rburst_length_median.mean)

getCalibrationData(keylog) ==
    IF keylog = Null \/ Len(keylog.EventID) < MIN_EVENTS THEN Null
    ELSE IF TextLength(CalibrationFinalText(keylog)) < CALIBRATION_MIN_CHARS THEN Null
    ELSE LET baseMetrics == extractMetrics(SlicedKeylog(keylog)) IN
         IF baseMetrics = Null THEN Null
         ELSE IF baseMetrics.characters_per_minute = Num(0) THEN Null
         ELSE [cpm_mean |-> baseMetrics.characters_per_minute,
               cpm_sd |-> RMul(baseMetrics.characters_per_minute, cvCpm),
               rburst_mean |-> baseMetrics.rburst_length_median,
               rburst_sd |-> RMul(baseMetrics.rburst_length_median, cvBurst)]

-----------------------------------------------------------------------------
(* Fixed-point numbers of calculateDualAxis: ONE units per 1.0. *)

ONE == 10000
HALF == ONE \div 2

(* The fixed-point value of an exact number, rounded down. *)
ToFixed(q) == (q.n \div q.d) * ONE + ((q.n % q.d) * ONE) \div q.d
FromInt(k) == k * ONE

(* The fixed-point value of a double, rounded down: a * ONE / 2^55, the   *)
(* product cut below its 55th bit (three limbs and 10 bits).                *)
DoubleToFixed(a) ==
    LET p == BigTimes(a, ONE)
    IN  Limb(p, 4) \div 1024 + Limb(p, 5) * 32 + Limb(p, 6) * 1048576

(* a * b, rounded down, computed by parts. *)
FMul(a, b) ==
    LET qa == a \div ONE
        ra == a % ONE
        qb == b \div ONE
        rb == b % ONE
    IN  qa * qb * ONE + qa * rb + ra * qb + (ra * rb) \div ONE

(* r * scale / b, rounded down, for 0 <= r < b and scale a power of 10. *)
RECURSIVE Frac(_, _, _)
Frac(r, b, scale) ==
    IF scale = 1 THEN 0
    ELSE LET t == r * 10
         IN  (t \div b) * (scale \div 10) + Frac(t % b, b, scale \div 10)

(* The largest quotient kept apart; a larger one is cut to it.  Every      *)
(* quotient formed is a z-score, which is divided by 4, shifted by 0.5 and  *)
(* clamped to [0, 1], so the cut changes no result.                         *)
QuotientMax == 100000

FDivPos(a, b) ==
    LET q == a \div b
    IN  IF q >= QuotientMax THEN QuotientMax * ONE
        ELSE IF q < -QuotientMax THEN -QuotientMax * ONE
        ELSE q * ONE + Frac(a % b, b, ONE)

(* a / b, rounded down, for b # 0. *)
FDiv(a, b) == IF b < 0 THEN FDivPos(-a, -b) ELSE FDivPos(a, b)

Min(a, b) == IF a < b THEN a ELSE b
Max(a, b) == IF a > b THEN a ELSE b

-----------------------------------------------------------------------------
(* clamp, normalize, normalizeInverted *)

(* clamp without its upper bound. *)
clampNoUpperBound(val, min, max) == Max(min, val)

clamp(val, min, max) == Max(min, Min(max, val))

(* normalize without the division of the z-score by 4. *)
normalizeUnscaled(value, mean, sd) ==
    IF sd = 0 THEN HALF
    ELSE clamp(FDiv(value - mean, sd) + HALF, 0, ONE)

normalize(value, mean, sd) ==
    IF sd = 0 THEN HALF
    ELSE LET z == FDiv(value - mean, sd)
         IN  clamp(FDiv(z, 4 * ONE) + HALF, 0, ONE)

(* normalizeInverted without the 1 it subtracts from. *)
normalizeInvertedFromZero(value, mean, sd) == 0 - normalize(value, mean, sd)

normalizeInverted(value, mean, sd) == ONE - normalize(value, mean, sd)

-----------------------------------------------------------------------------
(* calculateDualAxis *)

(* Weights, in units of 1/ONE. *)
DEFAULT_WEIGHTS ==
    [groups |-> [pathShape |-> 6000, revisionActivity |-> 4000, fluency |-> 5000,
                 pauseBehavior |-> 5000, unconstrainedAction |-> 10000],
     rev |-> [num_revisions |-> 3500, num_deletions |-> 2500,
              total_deletions_words |-> 2000, total_insertions |-> 1000,
              num_insertions |-> 1000],
     flu |-> [rburst_length_median |-> 5000, characters_per_minute |-> 5000],
     pb |-> [pause_time_mean |-> 4000, pause_within_words_count |-> 3000,
             pause_before_words |-> 2000, pause_before_sentences |-> 1000],
     paste |-> [BASE_JUMP |-> 1200, CHAR_SCALE |-> 2]]

ZERO_SPREAD_SUBSTITUTE == 10
PASTE_CAP == 4000

BenchMean(name) == ToFixed(BENCHMARKS[name].mean)
BenchSd(name) == ToFixed(BENCHMARKS[name].sd)

PathShape(m) ==
    normalize(ToFixed(m.product_process_ratio),
              BenchMean("product_process_ratio"), BenchSd("product_process_ratio"))

RevBase(m, w) ==
    LET rev1 == normalizeInverted(FromInt(m.num_revisions),
                    BenchMean("num_revisions"), BenchSd("num_revisions"))
        rev2 == normalizeInverted(FromInt(m.num_deletions),
                    BenchMean("num_revisions"), BenchSd("num_revisions"))
        rev3 == normalizeInverted(DoubleToFixed(m.total_deletions_words),
                    BenchMean("total_deletions_words"), BenchSd("total_deletions_words"))
        rev4 == normalizeInverted(FromInt(m.total_insertions),
                    BenchMean("total_insertions"), BenchSd("total_insertions"))
        rev5 == normalizeInverted(FromInt(m.num_insertions),
                    BenchMean("num_insertions"), BenchSd("num_insertions"))
    IN  FMul(rev1, w.rev.num_revisions) + FMul(rev2, w.rev.num_deletions)
        + FMul(rev3, w.rev.total_deletions_words)
        + FMul(rev4, w.rev.total_insertions) + FMul(rev5, w.rev.num_insertions)

(* FluencyNorms falling back to mean 0 and spread 1 instead of the         *)
(* benchmarks.                                                              *)
FluencyNormsUnitDefault(calibrationData) ==
    IF calibrationData # Null
    THEN [cpm_mean |-> ToFixed(calibrationData.cpm_mean),
          cpm_sd |-> IF calibrationData.cpm_sd = Num(0) THEN ZERO_SPREAD_SUBSTITUTE
                     ELSE ToFixed(calibrationData.cpm_sd),
          rburst_mean |-> ToFixed(calibrationData.rburst_mean),
          rburst_sd |-> IF calibrationData.rburst_sd = Num(0) THEN ZERO_SPREAD_SUBSTITUTE
                        ELSE ToFixed(calibrationData.rburst_sd)]
    ELSE [cpm_mean |-> 0, cpm_sd |-> ONE, rburst_mean |-> 0, rburst_sd |-> ONE]

(* The (mean, sd) pairs fluency is normalized against. *)
FluencyNorms(calibrationData) ==
    IF calibrationData # Null
    THEN [cpm_mean |-> ToFixed(calibrationData.cpm_mean),
          cpm_sd |-> IF calibrationData.cpm_sd = Num(0) THEN ZERO_SPREAD_SUBSTITUTE
                     ELSE ToFixed(calibrationData.cpm_sd),
          rburst_mean |-> ToFixed(calibrationData.rburst_mean),
          rburst_sd |-> IF calibrationData.rburst_sd = Num(0) THEN ZERO_SPREAD_SUBSTITUTE
                        ELSE ToFixed(calibrationData.rburst_sd)]
    ELSE [cpm_mean |-> BenchMean("characters_per_minute"),
          cpm_sd |-> BenchSd("characters_per_minute"),
          rburst_mean |-> BenchMean("rburst_length_median"),
          rburst_sd |-> BenchSd("rburst_length_median")]

FluencyBase(m, w, calibrationData) ==
    LET norms == FluencyNorms(calibrationData)
        flu1 == normalize(ToFixed(m.rburst_length_median),
                          norms.rburst_mean, norms.rburst_sd)
        flu2 == normalize(ToFixed(m.characters_per_minute),
                          norms.cpm_mean, norms.cpm_sd)
    IN  FMul(flu1, w.flu.rburst_length_median) + FMul(flu2, w.flu.characters_per_minute)

PbBase(m, w) ==
    LET pb1 == normalizeInverted(ToFixed(m.pause_time_mean),
                    BenchMean("pause_time_mean"), BenchSd("pause_time_mean"))
        pb2 == normalizeInverted(FromInt(m.pause_within_words_count),
                    BenchMean("pause_within_words_count"),
                    BenchSd("pause_within_words_count"))
        pb3 == normalizeInverted(ToFixed(m.pause_before_words),
                    BenchMean("pause_before_words"), BenchSd("pause_before_words"))
        pb4 == normalizeInverted(ToFixed(m.pause_before_sentences),
                    BenchMean("pause_before_sentences"), BenchSd("pause_before_sentences"))
    IN  FMul(pb1, w.pb.pause_time_mean) + FMul(pb2, w.pb.pause_within_words_count)
        + FMul(pb3, w.pb.pause_before_words) + FMul(pb4, w.pb.pause_before_sentences)

(* PasteScore without its clamp. *)
PasteScoreUnclamped(m, w) ==
    FMul(FMul(FromInt(m.paste_events), w.paste.BASE_JUMP),
         ONE + FMul(FromInt(m.paste_characters), w.paste.CHAR_SCALE))

PasteScore(m, w) ==
    clamp(FMul(FMul(FromInt(m.paste_events), w.paste.BASE_JUMP),
               ONE + FMul(FromInt(m.paste_characters), w.paste.CHAR_SCALE)),
          0, PASTE_CAP)

calculateDualAxis(m, w, calibrationData) ==
    IF m = Null THEN Null
    ELSE
      LET pathShape == PathShape(m)
          revBase == RevBase(m, w)
          linearity == FMul(pathShape, w.groups.pathShape)
                       + FMul(revBase, w.groups.revisionActivity)
          fluencyBase == FluencyBase(m, w, calibrationData)
          pbBase == PbBase(m, w)
          spontaneityBase == FMul(fluencyBase, w.groups.fluency)
                             + FMul(pbBase, w.groups.pauseBehavior)
          pasteScore == PasteScore(m, w)
          spontaneity == clamp(spontaneityBase
                               + FMul(pasteScore, w.groups.unconstrainedAction), 0, ONE)
      IN  [linearityScore |-> clamp(linearity, 0, ONE) * 100,
           spontaneityScore |-> spontaneity * 100,
           components |-> [pathShape |-> pathShape, revBase |-> revBase,
                           fluencyBase |-> fluencyBase, pbBase |-> pbBase,
                           pasteScore |-> pasteScore]]

-----------------------------------------------------------------------------
(* Keystroke event logs: parallel arrays, one entry per event. *)

EmptyLog(finalProduct, hasActivity, hasTextChange) ==
    [EventID |-> <<>>, EventTime |-> <<>>, Activity |-> <<>>, Output |-> <<>>,
     TextChange |-> <<>>, CursorPosition |-> <<>>, TextContent |-> <<>>,
     FinalProduct |-> finalProduct,
     hasActivity |-> hasActivity, hasTextChange |-> hasTextChange]

LastTime(log) ==
    IF Len(log.EventTime) = 0 THEN 0 ELSE log.EventTime[Len(log.EventTime)]

(* The log with one more event, dt milliseconds after the last one. *)
AppendEvent(log, ev) ==
    [log EXCEPT
        !.EventID = Append(@, Len(@) + 1),
        !.EventTime = Append(@, IF Len(@) = 0 THEN 0 ELSE LastTime(log) + ev.dt),
        !.Activity = Append(@, ev.activity),
        !.Output = Append(@, ev.output),
        !.TextChange = Append(@, ev.textChange),
        !.CursorPosition = Append(@, ev.cursor),
        !.TextContent = Append(@, ev.text)]

Event(dt, activity, output, textChange, cursor, text) ==
    [dt |-> dt, activity |-> activity, output |-> output,
     textChange |-> textChange, cursor |-> cursor, text |-> text]

-----------------------------------------------------------------------------
(* extractMetrics applied to bounded event logs *)

MaxEvents == 3

ExtractGaps == {50, 250}

ExtractEvents ==
    UNION {{Event(dt, "Input", "a", 1, 2, 2),
            Event(dt, "Input", "a", 1, 1, 2),
            Event(dt, "Input", "Space", 1, 2, 2),
            Event(dt, "Input", ".", 1, 2, 2),
            Event(dt, "Remove/Cut", "Backspace", 1, 1, 1),
            Event(dt, "Remove/Cut", "Delete", 1, 1, 1),
            Event(dt, "Nonproduction", "Shift", NoChange, 2, 2),
            Event(dt, "Paste", "v", 9, 11, 11)} : dt \in ExtractGaps}

Idle ==
    /\ scoringMode = "standard"
    /\ isSubmitClicked = FALSE
    /\ weights = Null
    /\ calib = Null
    /\ dualAxis = Null
    /\ calibStatus = "Waiting for input..."
    /\ reportData = Null
    /\ scorerCalls = {}

InitExtract ==
    /\ keylogData \in {EmptyLog(fp, ha, TRUE) : fp \in {Undefined, 10}, ha \in BOOLEAN}
    /\ metrics = Null
    /\ pc = "input"
    /\ Idle

LogEvent(menu, max) ==
    /\ pc = "input"
    /\ Len(keylogData.EventID) < max
    /\ \E ev \in menu : keylogData' = AppendEvent(keylogData, ev)
    /\ UNCHANGED <<scoringMode, isSubmitClicked, weights, metrics, calib, dualAxis,
                   calibStatus, reportData, scorerCalls, pc>>

RunExtract ==
    /\ pc = "input"
    /\ metrics' = extractMetrics(keylogData)
    /\ pc' = "done"
    /\ UNCHANGED <<keylogData, scoringMode, isSubmitClicked, weights, calib, dualAxis,
                   calibStatus, reportData, scorerCalls>>

ExtractLogEvent == LogEvent(ExtractEvents, MaxEvents)

NextExtract == ExtractLogEvent \/ RunExtract

SpecExtract == InitExtract /\ [][NextExtract]_vars


-----------------------------------------------------------------------------
(* extractMetrics applied to longer logs of keystrokes and backspaces *)

MaxBurstEvents == 5

BurstGaps == {100, 200, 2200}

BurstEvents ==
    UNION {{Event(dt, "Input", "a", 1, 2, 2),
            Event(dt, "Remove/Cut", "Backspace", 1, 1, 1)} : dt \in BurstGaps}

InitBurst ==
    /\ keylogData = EmptyLog(Undefined, TRUE, TRUE)
    /\ metrics = Null
    /\ pc = "input"
    /\ Idle

BurstLogEvent == LogEvent(BurstEvents, MaxBurstEvents)

NextBurst == BurstLogEvent \/ RunExtract

SpecBurst == InitBurst /\ [][NextBurst]_vars

-----------------------------------------------------------------------------
(* getCalibrationData applied to logs whose texts lie around 200 characters *)

MaxCalibEvents == 3

CalibGaps == {0, 100, 60000}

CalibTexts == {0, 199, 200, 201}

CalibEvents ==
    {Event(dt, "Input", "a", 1, text, text) : dt \in CalibGaps, text \in CalibTexts}

InitCalib ==
    /\ keylogData \in {EmptyLog(fp, TRUE, TRUE) : fp \in {Undefined, 0, 199, 200}}
    /\ metrics = Null
    /\ pc = "input"
    /\ Idle

RunCalibration ==
    /\ pc = "input"
    /\ calib' = getCalibrationData(keylogData)
    /\ pc' = "done"
    /\ UNCHANGED <<keylogData, scoringMode, isSubmitClicked, weights, metrics,
                   dualAxis, calibStatus, reportData, scorerCalls>>

CalibLogEvent == LogEvent(CalibEvents, MaxCalibEvents)

NextCalib == CalibLogEvent \/ RunCalibration

SpecCalib == InitCalib /\ [][NextCalib]_vars

-----------------------------------------------------------------------------
(* calculateDualAxis applied to bounded metrics, weights and baselines *)

MaxPasteEvents == 5

ScoreMetrics(ppr, rev, flu, pause, pe, pch) ==
    [product_process_ratio |-> ppr,
     num_revisions |-> rev, num_deletions |-> rev,
     total_deletions_words |-> DoubleTimes(POINT_TWO, Max(rev, 0)),
     total_insertions |-> rev, num_insertions |-> rev,
     paste_events |-> pe, paste_characters |-> pch,
     rburst_length_median |-> flu.burst, characters_per_minute |-> flu.cpm,
     pause_time_mean |-> pause, pause_within_words_count |-> rev,
     pause_before_words |-> pause, pause_before_sentences |-> pause,
     durationSeconds |-> Num(60), finalLength |-> 100, totalEvents |-> 100]

ScoreInputs ==
    {ScoreMetrics(ppr, rev, flu, pause, pe, pch) :
        ppr \in {Num(-5), Rat(824, 1000), Num(5)},
        rev \in {-5, 126, 1000},
        flu \in {[burst |-> Num(0), cpm |-> Num(0)],
                 [burst |-> Rat(627, 100), cpm |-> Num(200)],
                 [burst |-> Num(60), cpm |-> Num(12000)]},
        pause \in {Num(0), Num(100)},
        pe \in {-1, 0, 1, 4},
        pch \in {-3, 0, 5000}}

UniformWeights(x, charScale) ==
    [groups |-> [pathShape |-> x, revisionActivity |-> x, fluency |-> x,
                 pauseBehavior |-> x, unconstrainedAction |-> x],
     rev |-> [num_revisions |-> x, num_deletions |-> x, total_deletions_words |-> x,
              total_insertions |-> x, num_insertions |-> x],
     flu |-> [rburst_length_median |-> x, characters_per_minute |-> x],
     pb |-> [pause_time_mean |-> x, pause_within_words_count |-> x,
             pause_before_words |-> x, pause_before_sentences |-> x],
     paste |-> [BASE_JUMP |-> x, CHAR_SCALE |-> charScale]]

ZeroWeights == UniformWeights(0, 0)
BigWeights == UniformWeights(5 * ONE, 100)

ScoreWeights == {DEFAULT_WEIGHTS, ZeroWeights, BigWeights}

ScoreBaselines ==
    {Null,
     [cpm_mean |-> Num(100), cpm_sd |-> Rat(375, 10),
      rburst_mean |-> Num(3), rburst_sd |-> Rat(3077, 1000)],
     [cpm_mean |-> Num(100), cpm_sd |-> Num(0),
      rburst_mean |-> Num(0), rburst_sd |-> Num(0)],
     [cpm_mean |-> Num(-50), cpm_sd |-> Num(-10),
      rburst_mean |-> Num(7), rburst_sd |-> Rat(-1, 2)]}

InitScore ==
    /\ keylogData = Null
    /\ metrics \in ScoreInputs
    /\ weights \in ScoreWeights
    /\ calib \in ScoreBaselines
    /\ dualAxis = Null
    /\ pc = "input"
    /\ scoringMode = "standard"
    /\ isSubmitClicked = FALSE
    /\ calibStatus = "Waiting for input..."
    /\ reportData = Null
    /\ scorerCalls = {}

RunScore ==
    /\ pc = "input"
    /\ dualAxis' = calculateDualAxis(metrics, weights, calib)
    /\ pc' = "done"
    /\ UNCHANGED <<keylogData, scoringMode, isSubmitClicked, weights, metrics, calib,
                   calibStatus, reportData, scorerCalls>>

(* The same call on metrics with one more paste event. *)
MorePaste ==
    /\ pc = "done"
    /\ metrics.paste_events < MaxPasteEvents
    /\ metrics' = [metrics EXCEPT !.paste_events = @ + 1]
    /\ dualAxis' = calculateDualAxis(metrics', weights, calib)
    /\ UNCHANGED <<keylogData, scoringMode, isSubmitClicked, weights, calib,
                   calibStatus, reportData, scorerCalls, pc>>

NextScore == RunScore \/ MorePaste

SpecScore == InitScore /\ [][NextScore]_vars

-----------------------------------------------------------------------------
(* normalize and normalizeInverted applied to bounded arguments; metrics   *)
(* holds the arguments and dualAxis the two results.                        *)

MaxNormValue == 6

NormValues == {k * HALF : k \in (-2 * MaxNormValue)..(2 * MaxNormValue)}
NormMeans == {-ONE, 0, 8240}
NormSds == {0, 1110, HALF, ONE, -ONE}

NormResults(args) ==
    [normalize |-> normalize(args.value, args.mean, args.sd),
     normalizeInverted |-> normalizeInverted(args.value, args.mean, args.sd)]

InitNorm ==
    /\ keylogData = Null
    /\ metrics \in [value : NormValues, mean : NormMeans, sd : NormSds]
    /\ pc = "input"
    /\ Idle

RunNormalize ==
    /\ pc = "input"
    /\ dualAxis' = NormResults(metrics)
    /\ pc' = "done"
    /\ UNCHANGED <<keylogData, scoringMode, isSubmitClicked, weights, metrics, calib,
                   calibStatus, reportData, scorerCalls>>

(* The same calls on a larger value. *)
RaiseValue ==
    /\ pc = "done"
    /\ metrics.value + HALF <= MaxNormValue * ONE
    /\ metrics' = [metrics EXCEPT !.value = @ + HALF]
    /\ dualAxis' = NormResults(metrics')
    /\ UNCHANGED <<keylogData, scoringMode, isSubmitClicked, weights, calib,
                   calibStatus, reportData, scorerCalls, pc>>

NextNorm == RunNormalize \/ RaiseValue

SpecNorm == InitNorm /\ [][NextNorm]_vars

-----------------------------------------------------------------------------
(* extractMetrics applied to logs of insertions and deletions *)

MaxDeleteEvents == 7

DeleteEvents ==
    {Event(100, "Input", "a", 1, 2, 2),
     Event(100, "Input", "a", 1, 1, 2),
     Event(100, "Remove/Cut", "Backspace", 1, 1, 1),
     Event(100, "Input", "Backspace", 1, 1, 2)}

InitDelete ==
    /\ keylogData = EmptyLog(Undefined, TRUE, TRUE)
    /\ metrics = Null
    /\ pc = "input"
    /\ Idle

DeleteLogEvent == LogEvent(DeleteEvents, MaxDeleteEvents)

NextDelete == DeleteLogEvent \/ RunExtract

SpecDelete == InitDelete /\ [][NextDelete]_vars

-----------------------------------------------------------------------------
(* What a call leaves in the objects it was handed *)

(* getCalibrationData building its slice in the caller's object. *)
KeylogAfterGetCalibrationDataAliased(keylog) ==
    IF keylog = Null \/ Len(keylog.EventID) < MIN_EVENTS THEN keylog
    ELSE IF TextLength(CalibrationFinalText(keylog)) < CALIBRATION_MIN_CHARS THEN keylog
    ELSE SlicedKeylog(keylog)

(* getCalibrationData writes the slice and its FinalProduct to the new     *)
(* object slicedKeylog, never to keylog.                                    *)
KeylogAfterGetCalibrationData(keylog) == keylog

(* extractMetrics assigns its own locals only. *)
KeylogAfterExtractMetrics(keylog) == keylog

(* calculateDualAxis reads weights and assigns its own locals only. *)
WeightsAfterCalculateDualAxis(w) == w

-----------------------------------------------------------------------------
(* ExampleApp and RealTimeDashboard *)

MaxAppEvents == 3
MaxWeightChanges == 1

AppGaps == {1000}
PasteLengths == {199}

CurrentText(log) ==
    IF Len(log.TextContent) = 0 THEN 0 ELSE log.TextContent[Len(log.TextContent)]

(* The events the logger may record next: a character typed at the end of  *)
(* the text, a backspace, a paste.                                          *)
LoggerEvents(log) ==
    LET text == CurrentText(log) IN
    UNION {{Event(dt, "Input", "a", 1, text + 1, text + 1)}
           \cup {Event(dt, "Paste", "v", n, text + n, text + n) : n \in PasteLengths}
           \cup (IF text > 0
                 THEN {Event(dt, "Remove/Cut", "Backspace", 1, text - 1, text - 1)}
                 ELSE {}) : dt \in AppGaps}

(* The log the logger hands to onUpdate after one more event; FinalProduct *)
(* follows the text when the logger records it.                             *)
LoggedEvent(log, ev) ==
    [AppendEvent(log, ev) EXCEPT
        !.FinalProduct = IF log.FinalProduct = Undefined THEN Undefined ELSE ev.text]

SliderGroups == {"pathShape", "fluency"}
SliderValues == {0}
BaseJumpValues == {5000}

WeightChanges(w) ==
    Cardinality({g \in SliderGroups : w.groups[g] # DEFAULT_WEIGHTS.groups[g]})
    + (IF w.paste.BASE_JUMP # DEFAULT_WEIGHTS.paste.BASE_JUMP THEN 1 ELSE 0)

ScorerCall(caller, keylog, result) ==
    [caller |-> caller,
     enough |-> Len(keylog.EventID) >= MIN_EVENTS,
     scored |-> result # Null]

InitApp ==
    /\ keylogData = Null
    /\ scoringMode = "standard"
    /\ isSubmitClicked = FALSE
    /\ weights = DEFAULT_WEIGHTS
    /\ metrics = Null
    /\ calib = Null
    /\ dualAxis = Null
    /\ calibStatus = "Waiting for input..."
    /\ reportData = Null
    /\ scorerCalls = {}
    /\ pc = "idle"

(* onUpdate: setKeylogData, from the logger. *)
OnUpdate ==
    /\ pc = "idle"
    /\ \/ /\ keylogData = Null
          /\ \E fp \in {Undefined, 0} :
               \E ev \in LoggerEvents(EmptyLog(fp, TRUE, TRUE)) :
                  keylogData' = LoggedEvent(EmptyLog(fp, TRUE, TRUE), ev)
       \/ /\ keylogData # Null
          /\ Len(keylogData.EventID) < MaxAppEvents
          /\ \E ev \in LoggerEvents(keylogData) :
               keylogData' = LoggedEvent(keylogData, ev)
    /\ pc' = "render"
    /\ UNCHANGED <<scoringMode, isSubmitClicked, weights, metrics, calib, dualAxis,
                   calibStatus, reportData, scorerCalls>>

SetScoringMode(mode) ==
    /\ pc = "idle"
    /\ mode # scoringMode
    /\ scoringMode' = mode
    /\ pc' = "render"
    /\ UNCHANGED <<keylogData, isSubmitClicked, weights, metrics, calib, dualAxis,
                   calibStatus, reportData, scorerCalls>>

handleButtonClick ==
    /\ pc = "idle"
    /\ ~isSubmitClicked
    /\ isSubmitClicked' = TRUE
    /\ UNCHANGED <<keylogData, scoringMode, weights, metrics, calib, dualAxis,
                   calibStatus, reportData, scorerCalls, pc>>

handleGroupWeightChange(group, value) ==
    /\ pc = "idle"
    /\ metrics # Null /\ dualAxis # Null
    /\ weights.groups[group] # value
    /\ WeightChanges(weights) < MaxWeightChanges
    /\ weights' = [weights EXCEPT !.groups[group] = value]
    /\ pc' = "render"
    /\ UNCHANGED <<keylogData, scoringMode, isSubmitClicked, metrics, calib, dualAxis,
                   calibStatus, reportData, scorerCalls>>

handleSubWeightChange(category, field, value) ==
    /\ pc = "idle"
    /\ metrics # Null /\ dualAxis # Null
    /\ weights[category][field] # value
    /\ WeightChanges(weights) < MaxWeightChanges
    /\ weights' = [weights EXCEPT ![category][field] = value]
    /\ pc' = "render"
    /\ UNCHANGED <<keylogData, scoringMode, isSubmitClicked, metrics, calib, dualAxis,
                   calibStatus, reportData, scorerCalls>>

(* DashboardHasData letting a single event through. *)
DashboardHasDataOffByOne(keylog) ==
    keylog # Null /\ Len(keylog.EventID) >= MIN_EVENTS - 1

(* The guard of the dashboard's recomputation. *)
DashboardHasData(keylog) ==
    keylog # Null /\ Len(keylog.EventID) >= MIN_EVENTS

(* useMemo's recomputation after keylog, weights or scoringMode changed,   *)
(* and the effect handing calibStatus to setCalibStatus.  The count that   *)
(* the "Warming up..." status interpolates is left out.                     *)
Render ==
    /\ pc = "render"
    /\ pc' = "idle"
    /\ IF ~DashboardHasData(keylogData)
       THEN /\ metrics' = Null
            /\ dualAxis' = Null
            /\ calib' = Null
            /\ calibStatus' = "Waiting for input..."
            /\ UNCHANGED <<keylogData, weights, scorerCalls>>
       ELSE \E extracted \in {extractMetrics(keylogData)} :
            \E currentCalibData \in
                  {IF scoringMode = "calibrated"
                   THEN getCalibrationData(keylogData) ELSE Null} :
            \E calculated \in
                  {calculateDualAxis(extracted, weights, currentCalibData)} :
                /\ metrics' = extracted
                /\ calib' = currentCalibData
                /\ dualAxis' = calculated
                /\ calibStatus' =
                      IF scoringMode # "calibrated" THEN "Not using calibration."
                      ELSE IF currentCalibData # Null THEN "Calibration complete."
                      ELSE "Warming up..."
                /\ keylogData' =
                      IF scoringMode = "calibrated"
                      THEN KeylogAfterGetCalibrationData(
                               KeylogAfterExtractMetrics(keylogData))
                      ELSE KeylogAfterExtractMetrics(keylogData)
                /\ weights' = WeightsAfterCalculateDualAxis(weights)
                /\ scorerCalls' =
                      scorerCalls \cup {ScorerCall("dashboard", keylogData, calculated)}
    /\ UNCHANGED <<scoringMode, isSubmitClicked, reportData>>

handleDownloadReport ==
    /\ pc = "idle"
    /\ isSubmitClicked
    /\ IF keylogData = Null
       THEN UNCHANGED <<keylogData, reportData, scorerCalls>>
       ELSE \E extracted \in {extractMetrics(keylogData)} :
            \E result \in {calculateDualAxis(extracted, DEFAULT_WEIGHTS, Null)} :
                /\ reportData' = [finalText |-> keylogData.FinalProduct,
                                  metrics |-> extracted,
                                  analysis |-> result]
                /\ keylogData' = KeylogAfterExtractMetrics(keylogData)
                /\ scorerCalls' =
                      scorerCalls \cup {ScorerCall("report", keylogData, result)}
    /\ UNCHANGED <<scoringMode, isSubmitClicked, weights, metrics, calib, dualAxis,
                   calibStatus, pc>>

Next ==
    \/ OnUpdate
    \/ \E mode \in {"standard", "calibrated"} : SetScoringMode(mode)
    \/ handleButtonClick
    \/ \E group \in SliderGroups, value \in SliderValues :
          handleGroupWeightChange(group, value)
    \/ \E value \in BaseJumpValues : handleSubWeightChange("paste", "BASE_JUMP", value)
    \/ Render
    \/ handleDownloadReport

Spec == InitApp /\ [][Next]_vars

-----------------------------------------------------------------------------
(* Properties of extractMetrics *)

Extracted == pc = "done"
EventCount == Len(keylogData.EventID)
Iki(i) == At(keylogData.EventTime, i) - At(keylogData.EventTime, i - 1)
Intervals == 1..(EventCount - 1)

RECURSIVE SumIki(_)
SumIki(S) ==
    IF S = {} THEN 0
    ELSE LET x == CHOOSE y \in S : TRUE IN Iki(x) + SumIki(S \ {x})

(* q is the mean, in seconds, of the intervals (milliseconds) indexed by S. *)
IsMeanOf(q, S) ==
    IF S = {} THEN q = Num(0)
    ELSE q.n * Cardinality(S) * 1000 = SumIki(S) * q.d

(* C1: a log of fewer than 2 events yields the "not enough data" result     *)
(* (null), and a log of 2 or more events yields a metrics record.  The      *)
(* evaluation itself shows that no access fails.                            *)
C1_NotEnoughData ==
    Extracted =>
        /\ EventCount < 2 => metrics = Null
        /\ EventCount >= 2 => metrics # Null /\ metrics.totalEvents = EventCount

C1_Witness == Extracted /\ EventCount = 1 /\ metrics = Null

(* C8: an interval >= 200 ms falls in at most one of the classes            *)
(* before-word, before-sentence, within-word; it is before-word exactly     *)
(* when the previous output is Space or it is the first interval, and then  *)
(* never within-word; an interval < 200 ms is in no class.                  *)
BeforeWord == {i \in Intervals :
                  Iki(i) >= 200 /\ (At(keylogData.Output, i - 1) = "Space" \/ i = 1)}

C8_PauseClasses ==
    Extracted /\ EventCount >= 2 =>
        LET acc == Loop(keylogData, 1, InitialCounters(keylogData)) IN
        /\ IsMeanOf(metrics.pause_before_words, BeforeWord)
        /\ Len(acc.pauses_before_words) = Cardinality(BeforeWord)
        /\ Len(acc.pauses_before_words) + Len(acc.pauses_before_sentences)
              + metrics.pause_within_words_count
           <= Cardinality({i \in Intervals : Iki(i) >= 200})
        /\ metrics.pause_within_words_count
           <= Cardinality({i \in Intervals : Iki(i) >= 200} \ BeforeWord)
        /\ \A i \in Intervals :
              /\ Iki(i) < 200 => PauseContext(keylogData, i) = "none"
              /\ i \in BeforeWord <=> PauseContext(keylogData, i) = "word"

C8_Witness ==
    /\ Extracted /\ EventCount = 3
    /\ Iki(1) = 50 /\ Iki(2) = 250
    /\ At(keylogData.Output, 1) = "Space" /\ At(keylogData.Output, 2) = "a"
    /\ metrics.pause_before_words = Rat(250, 1000)
    /\ metrics.pause_within_words_count = 0

(* C9: characters_per_minute = finalLength / durationSeconds * 60 (0 when   *)
(* the duration is 0) and product_process_ratio = finalLength / max(1, the  *)
(* number of Input events, or of all events when Activity is absent); two   *)
(* Input events 50 ms apart with a final text of 10 characters give no      *)
(* pause, 12000 characters per minute and a ratio of 10/2.                  *)
FinalLen ==
    IF keylogData.FinalProduct # Undefined THEN keylogData.FinalProduct
    ELSE keylogData.TextContent[EventCount]
DurationMs == keylogData.EventTime[EventCount] - keylogData.EventTime[1]
InputCount ==
    IF keylogData.hasActivity
    THEN Cardinality({i \in 1..EventCount : keylogData.Activity[i] = "Input"})
    ELSE EventCount
TwoInputs50msApart ==
    /\ EventCount = 2 /\ Iki(1) = 50 /\ FinalLen = 10
    /\ keylogData.hasActivity
    /\ keylogData.Activity = <<"Input", "Input">>

C9_RateAndRatio ==
    Extracted /\ EventCount >= 2 =>
        LET cpm == metrics.characters_per_minute
            ppr == metrics.product_process_ratio
            keys == IF InputCount = 0 THEN 1 ELSE InputCount
        IN  /\ DurationMs = 0 => cpm = Num(0)
            /\ DurationMs > 0 => cpm.n * DurationMs = FinalLen * 60000 * cpm.d
            /\ ppr.n * keys = FinalLen * ppr.d
            /\ TwoInputs50msApart =>
                  /\ metrics.pause_time_mean = Num(0)
                  /\ cpm = Num(12000)
                  /\ ppr = Num(5)

C9_Witness ==
    /\ Extracted /\ TwoInputs50msApart
    /\ metrics.characters_per_minute = Num(12000)
    /\ metrics.product_process_ratio = Rat(10, 2)


(* C7: without deletion events, there is one burst per maximal run of       *)
(* consecutive events whose inner intervals are all < 2000 ms, of duration  *)
(* (last timestamp - first timestamp)/1000, runs of duration 0 omitted;     *)
(* events at 0, 100, 300, 2500, 2600 ms give the bursts 0.3 s and 0.1 s.    *)
NoDeletions ==
    \A i \in 0..(EventCount - 1) :
        /\ At(keylogData.Activity, i) # "Remove/Cut"
        /\ At(keylogData.Output, i) # "Backspace"

(* Events (indexed from 0) that open a run, and the event closing the run. *)
OpensRun(s) == s = 0 \/ Iki(s) >= 2000
RunLast(s) ==
    CHOOSE e \in s..(EventCount - 1) :
        /\ \A j \in (s + 1)..e : Iki(j) < 2000
        /\ e = EventCount - 1 \/ Iki(e + 1) >= 2000
RunDuration(s) == At(keylogData.EventTime, RunLast(s)) - At(keylogData.EventTime, s)

RECURSIVE RunBursts(_)
RunBursts(s) ==
    IF s >= EventCount THEN <<>>
    ELSE (IF OpensRun(s) /\ RunDuration(s) > 0
          THEN <<Rat(RunDuration(s), 1000)>> ELSE <<>>) \o RunBursts(s + 1)

-----------------------------------------------------------------------------
(* Properties of getCalibrationData *)

Calibrated == pc = "done"

(* The final text as getCalibrationData resolves it. *)
CalibFinalLen ==
    IF keylogData.FinalProduct \notin {Undefined, 0} THEN keylogData.FinalProduct
    ELSE IF EventCount > 0 THEN keylogData.TextContent[EventCount] ELSE 0

(* The last event (from 0) of the calibration slice: the first one whose   *)
(* snapshot has 200 characters or more, else the last event of the log.     *)
SliceLast ==
    LET hits == {i \in 0..(EventCount - 1) : At(keylogData.TextContent, i) >= 200}
    IN  IF hits = {} THEN EventCount - 1
        ELSE CHOOSE i \in hits : \A j \in hits : i <= j

SliceUsable ==
    /\ EventCount >= 2
    /\ SliceLast >= 1
    /\ At(keylogData.EventTime, SliceLast) > At(keylogData.EventTime, 0)
    /\ At(keylogData.TextContent, SliceLast) > 0

(* C5, as claimed (here for logs of 2 events or more): "not ready" for a    *)
(* final text under 200 characters, a baseline for every final text of 200  *)
(* characters or more.                                                      *)
C5_BaselineWheneverLongEnough ==
    Calibrated /\ EventCount >= 2 =>
        /\ CalibFinalLen < 200 => calib = Null
        /\ CalibFinalLen >= 200 => calib # Null

(* C5, amended: "not ready" for a final text under 200 characters; for 200  *)
(* characters or more, a baseline exactly when the calibration slice has at *)
(* least 2 events, a positive duration and a non-empty last snapshot.       *)
C5_BaselineWhenSliceUsable ==
    Calibrated =>
        /\ CalibFinalLen < 200 => calib = Null
        /\ CalibFinalLen >= 200 => (calib # Null <=> SliceUsable)

C5_Witness ==
    /\ Calibrated /\ EventCount = 2
    /\ keylogData.FinalProduct = Undefined
    /\ keylogData.TextContent = <<199, 200>>
    /\ calib # Null

(* C6: each spread of a baseline is its mean times the population           *)
(* coefficient of variation, cpm_sd = cpm_mean * 75/200 and rburst_sd =     *)
(* rburst_mean * 6.431/6.27; a typing-rate mean of 100 gives 37.5.          *)
C6_SpreadScaling ==
    Calibrated /\ calib # Null =>
        /\ calib.cpm_sd = RMul(calib.cpm_mean, Rat(75, 200))
        /\ calib.rburst_sd = RMul(calib.rburst_mean, Rat(6431, 6270))
        /\ calib.cpm_mean = Num(100) => calib.cpm_sd = Rat(375, 10)

C6_Witness ==
    /\ Calibrated /\ calib # Null
    /\ calib.cpm_mean = Num(100) /\ calib.cpm_sd = Rat(375, 10)


-----------------------------------------------------------------------------
(* Properties of calculateDualAxis *)

Scored == pc = "done" /\ dualAxis # Null

-----------------------------------------------------------------------------
(* Properties of the application *)

TooFewEvents == keylogData = Null \/ Len(keylogData.EventID) < MIN_EVENTS

(* C2, as stated: on every caller path, the dashboard's recomputation and  *)
(* the JSON report download alike, calculateDualAxis is never invoked      *)
(* while the event log has fewer than 2 events.                             *)
C2_ScorerNeverInvokedWithoutData ==
    \A call \in scorerCalls : call.enough

(* C2, amended: the dashboard's recomputation never invokes                *)
(* calculateDualAxis while the event log has fewer than 2 events and shows  *)
(* no metrics and no scores then; the JSON report download does invoke it,  *)
(* with the "not enough data" result of extractMetrics, and it returns      *)
(* "no score" without computing anything.                                   *)
C2_OnlyReportScoresWithoutData ==
    /\ \A call \in scorerCalls :
          /\ call.caller = "dashboard" => call.enough
          /\ ~call.enough => ~call.scored
    /\ (pc = "idle" /\ TooFewEvents) => (metrics = Null /\ dualAxis = Null)
    /\ (reportData # Null /\ reportData.metrics = Null) => reportData.analysis = Null

C2_Witness ==
    /\ [caller |-> "report", enough |-> FALSE, scored |-> FALSE] \in scorerCalls
    /\ [caller |-> "dashboard", enough |-> TRUE, scored |-> TRUE] \in scorerCalls
    /\ reportData # Null
    /\ reportData.analysis = Null

-----------------------------------------------------------------------------
(* Properties of the components of calculateDualAxis *)

SumOfWeights(group) ==
    LET names == DOMAIN group
        RECURSIVE Total(_)
        Total(S) == IF S = {} THEN 0
                    ELSE LET n == CHOOSE n \in S : TRUE
                         IN  group[n] + Total(S \ {n})
    IN  Total(names)

NonNegativeWeights ==
    \A g \in {"rev", "flu", "pb", "paste", "groups"} :
        \A n \in DOMAIN weights[g] : weights[g][n] >= 0

-----------------------------------------------------------------------------
(* Properties of the burst boundaries of extractMetrics *)

IsBoundaryEvent(i) ==
    \/ At(keylogData.Activity, i) = "Remove/Cut"
    \/ At(keylogData.Output, i) = "Backspace"
    \/ Iki(i) >= 2000

(* The durations recorded at the boundaries among the events i..n-1, the   *)
(* burst having started at time start; a boundary closes the burst at its   *)
(* own timestamp (own) or at the timestamp of the event before it.          *)
RECURSIVE BoundaryBursts(_, _, _)
BoundaryBursts(i, start, own) ==
    IF i >= EventCount THEN <<>>
    ELSE IF IsBoundaryEvent(i)
    THEN LET closing == IF own THEN At(keylogData.EventTime, i)
                        ELSE At(keylogData.EventTime, i - 1)
         IN  (IF closing - start > 0 THEN <<Rat(closing - start, 1000)>> ELSE <<>>)
             \o BoundaryBursts(i + 1, At(keylogData.EventTime, i), own)
    ELSE BoundaryBursts(i + 1, start, own)

LastBoundaryTime ==
    LET boundaries == {i \in 1..(EventCount - 1) : IsBoundaryEvent(i)}
    IN  IF boundaries = {} THEN At(keylogData.EventTime, 0)
        ELSE At(keylogData.EventTime,
                CHOOSE i \in boundaries : \A j \in boundaries : j <= i)

LoopResult == Loop(keylogData, 1, InitialCounters(keylogData))

(* C12, as stated: at every burst boundary the recorded duration is (the   *)
(* boundary event's own timestamp - burst start)/1000 when positive, and    *)
(* burst start is reset to the boundary event's own timestamp.              *)
C12_BurstClosedAtBoundary ==
    (Extracted /\ EventCount >= 2) =>
        /\ LoopResult.bursts = BoundaryBursts(1, At(keylogData.EventTime, 0), TRUE)
        /\ LoopResult.currentBurstStartTime = LastBoundaryTime

(* C12, amended: at every burst boundary the recorded duration is (the     *)
(* timestamp of the event before the boundary event - burst start)/1000     *)
(* when positive, so the interval that ends in the boundary event is left   *)
(* out, and burst start is reset to the boundary event's own timestamp.     *)
C12_BurstClosedBeforeBoundary ==
    (Extracted /\ EventCount >= 2) =>
        /\ LoopResult.bursts = BoundaryBursts(1, At(keylogData.EventTime, 0), FALSE)
        /\ LoopResult.currentBurstStartTime = LastBoundaryTime

C12_Witness ==
    /\ Extracted
    /\ keylogData.EventTime = <<0, 100, 2300, 2400>>
    /\ \A i \in 0..3 : At(keylogData.Activity, i) = "Input"
    /\ IsBoundaryEvent(2)
    /\ LoopResult.bursts = <<Rat(1, 10)>>
    /\ LoopResult.currentBurstStartTime = 2300
    /\ metrics.rburst_length_median = Rat(1, 10)

-----------------------------------------------------------------------------
(* Properties of normalize and normalizeInverted *)

(* C13: normalize(v, mean, sd) is exactly 0.5 when sd = 0 and otherwise    *)
(* clamp((v - mean)/sd/4 + 0.5, 0, 1); for sd > 0 it is 0.5 at v = mean,    *)
(* 0 for v <= mean - 2sd, 1 for v >= mean + 2sd and never lower for a       *)
(* larger v; normalizeInverted is 1 - normalize of the same arguments.      *)
C13_NormalizeShape ==
    [][/\ pc' = "done" =>
            LET v == metrics'.value
                mean == metrics'.mean
                sd == metrics'.sd
                n == dualAxis'.normalize
            IN  /\ sd = 0 => n = HALF
                /\ sd # 0 =>
                      n = Max(0, Min(ONE, FDiv(FDiv(v - mean, sd), 4 * ONE) + HALF))
                /\ sd > 0 =>
                      /\ v = mean => n = HALF
                      /\ v <= mean - 2 * sd => n = 0
                      /\ v >= mean + 2 * sd => n = ONE
                /\ 0 <= n /\ n <= ONE
                /\ dualAxis'.normalizeInverted = ONE - n
       /\ (RaiseValue /\ metrics.sd > 0) =>
            dualAxis'.normalize >= dualAxis.normalize]_vars

C13_Witness ==
    /\ pc = "done"
    /\ metrics = [value |-> ONE, mean |-> 0, sd |-> ONE]
    /\ dualAxis.normalize = 7500
    /\ dualAxis.normalizeInverted = 2500
    /\ normalize(2 * ONE, 0, ONE) = ONE
    /\ normalize(-2 * ONE, 0, ONE) = 0
    /\ normalize(ONE, 0, 0) = HALF

-----------------------------------------------------------------------------
(* Properties of the baseline in calculateDualAxis *)

(* The dashboard's scores had no baseline been supplied. *)
WithoutBaseline == calculateDualAxis(metrics, weights, Null)

(* Fluency normalized against the population benchmarks: burst-length      *)
(* median against (6.27, 6.431), typing rate against (200, 75).             *)
BenchmarkFluency ==
    FMul(normalize(ToFixed(metrics.rburst_length_median), 62700, 64310),
         weights.flu.rburst_length_median)
    + FMul(normalize(ToFixed(metrics.characters_per_minute), 200 * ONE, 75 * ONE),
           weights.flu.characters_per_minute)

(* C14: a baseline supplied to calculateDualAxis changes at most           *)
(* fluencyBase and spontaneityScore: linearityScore, pathShape, revBase,    *)
(* pbBase and pasteScore are those computed with no baseline; in standard   *)
(* mode, and in calibrated mode while the baseline is not ready, no         *)
(* baseline is supplied and fluency is normalized against the population    *)
(* benchmarks.                                                              *)
C14_BaselineTouchesFluencyOnly ==
    (pc = "idle" /\ dualAxis # Null) =>
        /\ dualAxis.linearityScore = WithoutBaseline.linearityScore
        /\ \A c \in {"pathShape", "revBase", "pbBase", "pasteScore"} :
              dualAxis.components[c] = WithoutBaseline.components[c]
        /\ (scoringMode = "standard" \/ calibStatus = "Warming up...") =>
              /\ calib = Null
              /\ dualAxis = WithoutBaseline
              /\ dualAxis.components.fluencyBase = BenchmarkFluency

C14_Witness ==
    /\ pc = "idle" /\ dualAxis # Null
    /\ calibStatus = "Calibration complete."
    /\ calib # Null
    /\ dualAxis.components.fluencyBase # WithoutBaseline.components.fluencyBase
    /\ dualAxis.spontaneityScore # WithoutBaseline.spontaneityScore
    /\ dualAxis.linearityScore = WithoutBaseline.linearityScore

-----------------------------------------------------------------------------
(* Properties of the deletion and insertion counts of extractMetrics *)

DeletionEvents ==
    {i \in 1..(EventCount - 1) :
        \/ At(keylogData.Activity, i) = "Remove/Cut"
        \/ At(keylogData.Output, i) = "Backspace"}

InsertionEvents ==
    {i \in 1..(EventCount - 1) :
        /\ At(keylogData.Activity, i) = "Input"
        /\ At(keylogData.CursorPosition, i - 1) < At(keylogData.TextContent, i - 1)}

CountsAsStated ==
    /\ metrics.num_deletions = Cardinality(DeletionEvents)
    /\ metrics.num_insertions = Cardinality(InsertionEvents)
    /\ metrics.total_insertions = metrics.num_insertions
    /\ metrics.num_revisions = metrics.num_deletions + metrics.num_insertions

(* 0.2 added n times to 0, each sum rounded to a double. *)
RECURSIVE AddedTimes(_)
AddedTimes(n) == IF n = 0 THEN DoubleZero ELSE DoubleAdd(AddedTimes(n - 1), POINT_TWO)

(* C15, as stated: over the events 1..n-1, one deletion and one revision   *)
(* per Remove/Cut or Backspace event, one insertion, one total-insertion    *)
(* and one revision per Input event typed before the end of the text; so    *)
(* num_revisions = num_deletions + num_insertions, total_insertions =       *)
(* num_insertions and total_deletions_words = 0.2 x num_deletions.          *)
C15_CountsAndProduct ==
    (Extracted /\ EventCount >= 2) =>
        /\ CountsAsStated
        /\ metrics.total_deletions_words = DoubleTimes(POINT_TWO, metrics.num_deletions)

(* C15, amended: the counts are as stated, and total_deletions_words is    *)
(* 0.2 added once per deletion, each sum rounded: it is the double          *)
(* 0.2 x num_deletions up to 5 deletions, and from 6 deletions on it can    *)
(* differ from that product in its last bits (6 deletions give 1.2, the     *)
(* product is 1.2000000000000002).                                          *)
C15_CountsAndRunningSum ==
    (Extracted /\ EventCount >= 2) =>
        /\ CountsAsStated
        /\ metrics.total_deletions_words = AddedTimes(metrics.num_deletions)
        /\ metrics.num_deletions <= 5 =>
              metrics.total_deletions_words
                 = DoubleTimes(POINT_TWO, metrics.num_deletions)
        /\ metrics.num_deletions = 6 =>
              /\ metrics.total_deletions_words = <<6552, 13107, 26214, 1228>>
              /\ DoubleTimes(POINT_TWO, 6) = <<6560, 13107, 26214, 1228>>

C15_Witness ==
    /\ Extracted /\ metrics # Null
    /\ metrics.num_deletions = 6
    /\ metrics.num_insertions = 2
    /\ metrics.num_revisions = 8
    /\ metrics.total_deletions_words = <<6552, 13107, 26214, 1228>>
    /\ metrics.total_deletions_words # DoubleTimes(POINT_TWO, 6)

-----------------------------------------------------------------------------
(* Properties of the calibration slice of getCalibrationData *)

(* The first k events of the log, with the last of their snapshots as      *)
(* final text.                                                              *)
PrefixLog(k) ==
    [keylogData EXCEPT
        !.EventID = SubSeq(@, 1, k), !.EventTime = SubSeq(@, 1, k),
        !.Activity = SubSeq(@, 1, k), !.Output = SubSeq(@, 1, k),
        !.TextChange = SubSeq(@, 1, k), !.CursorPosition = SubSeq(@, 1, k),
        !.TextContent = SubSeq(@, 1, k),
        !.FinalProduct = keylogData.TextContent[k]]

MeansOfPrefix(k) ==
    LET sliceMetrics == extractMetrics(PrefixLog(k))
    IN  /\ sliceMetrics # Null
        /\ calib.cpm_mean = sliceMetrics.characters_per_minute
        /\ calib.rburst_mean = sliceMetrics.rburst_length_median

SomeSnapshotLongEnough ==
    \E i \in 0..(EventCount - 1) : At(keylogData.TextContent, i) >= 200

(* C16, as stated: the means of a baseline are the typing rate and the     *)
(* burst-length median extractMetrics gives for the calibration slice, the  *)
(* prefix of the log that ends one event after the first event whose        *)
(* snapshot has 200 characters or more, with the slice's own last snapshot  *)
(* as final text.                                                           *)
C16_SliceEndsOneEventAfter ==
    (Calibrated /\ calib # Null /\ SomeSnapshotLongEnough) =>
        MeansOfPrefix(IF SliceLast + 2 <= EventCount THEN SliceLast + 2 ELSE EventCount)

(* C16, amended: the calibration slice is the prefix of the log up to and  *)
(* including the first event whose snapshot has 200 characters or more (the *)
(* whole log when no snapshot is that long), with the slice's own last      *)
(* snapshot as final text, whatever the log's FinalProduct; the means of a  *)
(* baseline are the typing rate and burst-length median extractMetrics      *)
(* gives for it, the rate being that snapshot's length over the slice's     *)
(* duration.                                                                *)
C16_SliceEndsAtFirstLongSnapshot ==
    (Calibrated /\ calib # Null) =>
        /\ MeansOfPrefix(SliceLast + 1)
        /\ calib.cpm_mean =
              Rat(At(keylogData.TextContent, SliceLast) * 60000,
                  At(keylogData.EventTime, SliceLast) - At(keylogData.EventTime, 0))

C16_Witness ==
    /\ Calibrated /\ calib # Null
    /\ keylogData.TextContent = <<0, 200, 201>>
    /\ keylogData.EventTime = <<0, 100, 200>>
    /\ SliceLast = 1
    /\ calib.cpm_mean = Num(120000)
    /\ extractMetrics(keylogData).characters_per_minute = Num(60300)

-----------------------------------------------------------------------------
(* Properties of the baseline over the renders of a growing log *)

CalibratedModeStays == scoringMode = "calibrated" /\ scoringMode' = "calibrated"

(* C17, as stated: while the log grows by appended events, its final       *)
(* product being the last snapshot, and calibrated mode stays selected, a   *)
(* getCalibrationData that has returned a baseline does not return null on  *)
(* a later render, and the status does not go from "Calibration complete."  *)
(* back to "Warming up...".                                                 *)
C17_BaselineNeverLost ==
    [][CalibratedModeStays =>
          /\ calib # Null => calib' # Null
          /\ calibStatus = "Calibration complete." => calibStatus' # "Warming up..."]_vars

(* A baseline was shown for the first two events, 200 characters, and is   *)
(* gone after the backspace that follows them.                              *)
C17_Witness ==
    /\ pc = "idle"
    /\ scoringMode = "calibrated"
    /\ keylogData # Null
    /\ keylogData.TextContent = <<199, 200, 199>>
    /\ getCalibrationData(PrefixLog(2)) # Null
    /\ getCalibrationData(keylogData) = Null
    /\ calib = Null
    /\ calibStatus = "Warming up..."

=============================================================================
